---- MODULE Spec2Model ----
(***************************************************************************)
(* A model of fcapi_client.py: the response normalizer (parse_json), the   *)
(* status validator (check_response) and the FCAPI client with its         *)
(* functools.cache / functools.cached_property memoization.                *)
(*                                                                         *)
(* Conventions                                                             *)
(*  - Python numbers that may be fractional (nutrient amounts, serving     *)
(*    sizes) are fixed-point integers counting tenths: 529 is 52.9.        *)
(*  - A Python dict is a function whose DOMAIN is its key set, so a        *)
(*    missing key is a missing element of the DOMAIN.                      *)
(*  - A raised exception is a value [outcome |-> <exception class>, ...].  *)
(***************************************************************************)
EXTENDS Integers, Sequences, FiniteSets, TLC

VARIABLES
    cache,      \* functools.cache storage: method name -> (key -> result)
    inst_dict,  \* instance -> its __dict__ (api_key, cached properties)
    returned,   \* history: exact call signature -> result of its first return
    last,       \* observation of the most recent client call
    ncalls,     \* number of client calls made so far
    data,       \* normalizer run: the raw record handed to parse_json
    output      \* normalizer run: what parse_json produced for data

vars == <<cache, inst_dict, returned, last, ncalls, data, output>>

(***************************************************************************)
(* Bounds of the model.                                                    *)
(***************************************************************************)
MaxCalls == 3

(***************************************************************************)
(* Small helpers.                                                          *)
(***************************************************************************)
Restrict(f, S) == [k \in S |-> f[k]]

RECURSIVE FirstMissing(_, _)
\* The first key of the sequence keys that is not in dom, "" when none is.
FirstMissing(keys, dom) ==
    IF keys = <<>> THEN ""
    ELSE IF Head(keys) \notin dom THEN Head(keys)
    ELSE FirstMissing(Tail(keys), dom)

SetMax(S) == CHOOSE m \in S : \A x \in S : x <= m

(***************************************************************************)
(* str.lower() on the strings that occur in the model.                     *)
(***************************************************************************)
lower(s) ==
    CASE s = "Energy" -> "energy"
      [] s = "ENERGY" -> "energy"
      [] s = "Total lipid (fat)" -> "total lipid (fat)"
      [] s = "Carbohydrate, by difference" -> "carbohydrate, by difference"
      [] s = "Protein" -> "protein"
      [] s = "Water" -> "water"
      [] s = "Apple" -> "apple"
      [] s = "Pear" -> "pear"
      [] s = "G" -> "g"
      [] s = "ML" -> "ml"
      [] OTHER -> s

(***************************************************************************)
(* int() on a fixed-point number of tenths: truncation toward zero.        *)
(***************************************************************************)
int_round(tenths) == (tenths + 5) \div 10

int(tenths) ==
    IF tenths >= 0 THEN tenths \div 10 ELSE -((-tenths) \div 10)

(***************************************************************************)
(* parse_json, lines 13-43.                                                *)
(***************************************************************************)
KeyError(k) == [outcome |-> "KeyError", key |-> k, value |-> <<>>]

\* The dict comprehension of lines 24-26: lowercased nutrient name -> amount;
\* a later entry with the same lowercased name overwrites an earlier one.
nutrition_of(foodNutrients) ==
    [n \in {lower(foodNutrients[j].nutrient.name) : j \in DOMAIN foodNutrients} |->
        foodNutrients[SetMax({j \in DOMAIN foodNutrients :
                                lower(foodNutrients[j].nutrient.name) = n})].amount]

nutrition_get_default(nutrition, k) ==
    IF k \in DOMAIN nutrition
    THEN [found |-> TRUE, value |-> nutrition[k]]
    ELSE [found |-> TRUE, value |-> 0]

\* The subscript nutrition[k] of lines 27-31.
nutrition_get(nutrition, k) ==
    IF k \in DOMAIN nutrition
    THEN [found |-> TRUE, value |-> nutrition[k]]
    ELSE [found |-> FALSE, value |-> 0]

parse_json(d) ==
    LET top1 == FirstMissing(<<"fdcId", "description", "foodNutrients">>, DOMAIN d) IN
    IF top1 # "" THEN KeyError(top1) ELSE
    LET nutrition == nutrition_of(d.foodNutrients)
        energy == nutrition_get(nutrition, "energy")
        fat == nutrition_get(nutrition, "total lipid (fat)")
        carbs == nutrition_get(nutrition, "carbohydrate, by difference")
        protein == nutrition_get(nutrition, "protein")
    IN
    IF ~energy.found THEN KeyError("energy") ELSE
    IF ~fat.found THEN KeyError("total lipid (fat)") ELSE
    IF ~carbs.found THEN KeyError("carbohydrate, by difference") ELSE
    IF ~protein.found THEN KeyError("protein") ELSE
    LET top2 == FirstMissing(<<"servingSize", "servingSizeUnit", "labelNutrients">>,
                             DOMAIN d) IN
    IF top2 # "" THEN KeyError(top2) ELSE
    LET lab == FirstMissing(<<"calories", "fat", "carbohydrates", "protein">>,
                            DOMAIN d.labelNutrients) IN
    IF lab # "" THEN KeyError(lab) ELSE
    [outcome |-> "return",
     value |->
        [food_id |-> d.fdcId,
         name |-> lower(d.description),
         calories |-> int(energy.value),
         macronutrients |-> [fat |-> fat.value,
                             carbs |-> carbs.value,
                             protein |-> protein.value],
         serving |-> [value |-> d.servingSize, unit |-> lower(d.servingSizeUnit)],
         nutrition_per_serving |->
            [calories |-> d.labelNutrients.calories.value,
             fat |-> d.labelNutrients.fat.value,
             carbs |-> d.labelNutrients.carbohydrates.value,
             protein |-> d.labelNutrients.protein.value]]]

\* The dataclass FoodEntry, lines 46-57: its generated constructor.
FoodEntry(food_id, name, calories, macronutrients, serving, nutrition_per_serving) ==
    [food_id |-> food_id, name |-> name, calories |-> calories,
     macronutrients |-> macronutrients, serving |-> serving,
     nutrition_per_serving |-> nutrition_per_serving]

\* FoodEntry.from_json, lines 62-64: FoodEntry(**parse_json(json)).
from_json(json) ==
    LET p == parse_json(json) IN
    IF p.outcome # "return" THEN p
    ELSE [outcome |-> "return",
          value |-> FoodEntry(p.value.food_id, p.value.name, p.value.calories,
                              p.value.macronutrients, p.value.serving,
                              p.value.nutrition_per_serving)]

(***************************************************************************)
(* Raw food records for the normalizer run.                                *)
(***************************************************************************)
Nutrient(n, a) == [nutrient |-> [name |-> n], amount |-> a]

RequiredNutrients ==
    {"energy", "total lipid (fat)", "carbohydrate, by difference", "protein"}

EnergyNames == {"Energy", "ENERGY", "energy"}
EnergyAmounts == {-15, 0, 5, 520, 525, 529}

TopKeys == {"fdcId", "description", "foodNutrients", "servingSize",
            "servingSizeUnit", "labelNutrients"}
LabelKeys == {"calories", "fat", "carbohydrates", "protein"}

Opt(b, e) == IF b THEN <<e>> ELSE <<>>

\* present: the required nutrients listed once; eName, eAmt: name and amount
\* of the energy entry; dup: a second energy entry (the kJ figure) at the end.
FoodNutrients(present, eName, eAmt, dup) ==
    <<Nutrient("Water", 856)>>
    \o Opt("energy" \in present, Nutrient(eName, eAmt))
    \o Opt("total lipid (fat)" \in present, Nutrient("Total lipid (fat)", 2))
    \o Opt("carbohydrate, by difference" \in present,
           Nutrient("Carbohydrate, by difference", 140))
    \o Opt("protein" \in present, Nutrient("Protein", 3))
    \o Opt(dup, Nutrient("Energy", 2180))

FullRecord(id, desc, fn) ==
    [fdcId |-> id,
     description |-> desc,
     foodNutrients |-> fn,
     servingSize |-> 1000,
     servingSizeUnit |-> "G",
     labelNutrients |-> [calories |-> [value |-> 520],
                         fat |-> [value |-> 2],
                         carbohydrates |-> [value |-> 140],
                         protein |-> [value |-> 3]]]

DropTop(r, k) == Restrict(r, DOMAIN r \ {k})
DropLabel(r, k) ==
    [r EXCEPT !.labelNutrients = Restrict(r.labelNutrients, DOMAIN r.labelNutrients \ {k})]

RawRecords ==
    LET full == {FullRecord(123, "Apple", FoodNutrients(p, n, a, dup)) :
                    p \in SUBSET RequiredNutrients, n \in EnergyNames,
                    a \in EnergyAmounts, dup \in BOOLEAN}
    IN full
       \cup {DropTop(r, k) : r \in full, k \in TopKeys}
       \cup {DropLabel(r, k) : r \in full, k \in LabelKeys}

NoOutput == [outcome |-> "not run", key |-> "", value |-> <<>>]


(***************************************************************************)
(* Python values passed as arguments.  num is the numeric value in tenths  *)
(* (int, float), text the characters of a str, items the elements of a     *)
(* list or tuple.  "hashable_list" is an instance of a list subclass that  *)
(* defines __hash__ (isinstance(v, list) holds and v can be a dict key).   *)
(***************************************************************************)
PyInt(n) == [type |-> "int", num |-> 10 * n, text |-> "", items |-> <<>>]
PyFloat(tenths) == [type |-> "float", num |-> tenths, text |-> "", items |-> <<>>]
PyStr(s) == [type |-> "str", num |-> 0, text |-> s, items |-> <<>>]
PySeq(t, n) == [type |-> t, num |-> 0, text |-> "", items |-> [j \in 1..n |-> j]]
Self(i) == [type |-> "FCAPI", num |-> 10 * i, text |-> "", items |-> <<>>]

isinstance_int(v) == v.type = "int"
isinstance_list(v) == v.type \in {"list", "hashable_list"}
hashable(v) == v.type # "list"

\* str() of an int
str(n) == ToString(n)

RECURSIVE join(_, _)
\* sep.join(parts) for a sequence of strings
join(sep, parts) ==
    IF parts = <<>> THEN ""
    ELSE IF Len(parts) = 1 THEN parts[1]
    ELSE parts[1] \o sep \o join(sep, Tail(parts))

\* The class of values equal (==, and so equal in hash) to v, as a string:
\* 1 == 1.0; a tuple never equals a list; an FCAPI instance equals only itself.
eq_class(v) ==
    CASE v.type \in {"int", "float"} -> "num:" \o ToString(v.num)
      [] v.type = "str" -> "str:" \o v.text
      [] v.type = "tuple" -> "tuple:" \o join(",", [j \in DOMAIN v.items |-> str(v.items[j])])
      [] v.type \in {"list", "hashable_list"} ->
            "list:" \o join(",", [j \in DOMAIN v.items |-> str(v.items[j])])
      [] v.type = "FCAPI" -> "FCAPI@" \o ToString(v.num)

\* The value exactly as the caller wrote it (type included).
exact(v) == v.type \o "/" \o eq_class(v)

RECURSIVE flatten(_)
\* The (name, value) items of a keyword dict, in call order.
flatten(kwargs) ==
    IF kwargs = <<>> THEN <<>>
    ELSE <<kwargs[1].name, "str:" \o kwargs[1].value>> \o flatten(Tail(kwargs))

(***************************************************************************)
(* functools.cache (lines 89, 110, 135): the key of a call, and the store. *)
(***************************************************************************)
make_key_no_self(args, kwargs) ==
    [j \in 1..(Len(args) - 1) |-> eq_class(args[j + 1])]
    \o (IF kwargs = <<>> THEN <<>> ELSE <<"<kwd_mark>">> \o flatten(kwargs))

\* args is the positional tuple, self first; kwargs the keyword items.
make_key(args, kwargs) ==
    [j \in DOMAIN args |-> eq_class(args[j])]
    \o (IF kwargs = <<>> THEN <<>> ELSE <<"<kwd_mark>">> \o flatten(kwargs))

cache_update_lru1(c, k, res) ==
    IF res.outcome = "return" THEN (k :> res.result) ELSE c

cache_update_always(c, k, res) == c @@ (k :> res.result)

\* The wrapper stores what the wrapped function returned; an exception
\* propagates and nothing is stored.  The cache is unbounded.
cache_update(c, k, res) ==
    IF res.outcome = "return" THEN c @@ (k :> res.result) ELSE c

(***************************************************************************)
(* functools.cached_property (lines 153, 164): the value is kept in the    *)
(* instance __dict__ under the property name.                              *)
(***************************************************************************)
cached_property_update_none(d, name, res) == d

cached_property_update(d, name, res) ==
    IF res.outcome = "return" THEN d @@ (name :> res.result) ELSE d

(***************************************************************************)
(* check_response, lines 178-192.                                          *)
(***************************************************************************)
MsgInvalid == "Apparently this request used an invalid parameter."
MsgNotFound == "The status code indicates that the food item was not found."
MsgUnknown == "The status code indicates an unknown error."

check_response_404_ok(status_code) ==
    IF status_code \in {200, 404} THEN [outcome |-> "return", message |-> ""]
    ELSE IF status_code = 400 THEN [outcome |-> "ValueError", message |-> MsgInvalid]
    ELSE [outcome |-> "RuntimeError", message |-> MsgUnknown]

check_response(status_code) ==
    IF status_code = 200 THEN [outcome |-> "return", message |-> ""]
    ELSE IF status_code = 400 THEN [outcome |-> "ValueError", message |-> MsgInvalid]
    ELSE IF status_code = 404 THEN [outcome |-> "ValueError", message |-> MsgNotFound]
    ELSE [outcome |-> "RuntimeError", message |-> MsgUnknown]

(***************************************************************************)
(* The HTTP exchange.  A response is a status code and a text; valid says  *)
(* whether the text is a JSON document.                                    *)
(***************************************************************************)
base_url == "https://api.nal.usda.gov/fdc/v1/"

\* urljoin of a base that ends in "/" with a relative path
urljoin(base, rel) == base \o rel

\* chars: the characters of the text; doc: <<the document>> when the
\* characters are JSON.
JsonText(chars, v) == [valid |-> TRUE, chars |-> chars, doc |-> <<v>>]
NotJson(chars) == [valid |-> FALSE, chars |-> chars, doc |-> <<>>]

json_loads(text) ==
    IF text.valid THEN [outcome |-> "return", value |-> text.doc[1]]
    ELSE [outcome |-> "JSONDecodeError", value |-> ""]

\* dict.update: the keyword items are written over the dict
update(params, kwargs) ==
    [k \in DOMAIN params \cup {kwargs[j].name : j \in DOMAIN kwargs} |->
        IF \E j \in DOMAIN kwargs : kwargs[j].name = k
        THEN kwargs[SetMax({j \in DOMAIN kwargs : kwargs[j].name = k})].value
        ELSE params[k]]


\* the batch ceiling of line 123
MaxBatch == 20

(***************************************************************************)
(* The callers' inputs and the backend's answers.                          *)
(***************************************************************************)
Instances == {1, 2}
ApiKeys == [i \in Instances |-> IF i = 1 THEN "KEY_A" ELSE "KEY_B"]

Kw(n, v) == [name |-> n, value |-> v]

\* food_by_id(1), food_by_id(1.0), food_by_id("1"), food_by_id([1])
FoodIds == {PyInt(1), PyFloat(10), PyStr("1"), PySeq("list", 1)}
FoodKwargs == {<<>>}

FoodIdLists == {PySeq(t, n) : t \in {"list", "hashable_list"}, n \in {MaxBatch, MaxBatch + 1}}
               \cup {PySeq("tuple", 1)}
FoodsKwargs == {<<>>}

\* brand "" stands for a call that leaves brand out
SearchCalls == {[query |-> "apple", brand |-> "", kwargs |-> <<>>],
                [query |-> "pear", brand |-> "", kwargs |-> <<>>],
                [query |-> "apple", brand |-> "acme", kwargs |-> <<>>],
                [query |-> "apple", brand |-> "", kwargs |-> <<Kw("api_key", "KEY_X")>>]}

RecApple == FullRecord(123, "Apple", FoodNutrients(RequiredNutrients, "Energy", 529, FALSE))
RecPear == FullRecord(456, "Pear", FoodNutrients(RequiredNutrients, "ENERGY", 570, TRUE))
RecNoProtein ==
    FullRecord(789, "Apple",
               FoodNutrients(RequiredNutrients \ {"protein"}, "Energy", 529, FALSE))

ErrorResponses == {[status |-> s, text |-> NotJson("error")] : s \in {400, 404, 500}}
Ok(texts) == {[status |-> 200, text |-> t] : t \in texts}

\* The answers to draw from: none when the body sends no request.
NoResponse == [status |-> 0, text |-> NotJson("error")]
Answers(probe, responses) ==
    IF probe.requested THEN responses \ {NoResponse} ELSE {NoResponse}
With(responses) == responses \cup {NoResponse}

FoodResponses ==
    ErrorResponses \cup Ok({JsonText("{apple}", RecApple), JsonText("{pear}", RecPear),
                            JsonText("{apple without protein}", RecNoProtein)})
FoodsResponses ==
    ErrorResponses \cup Ok({JsonText("{foods: []}", [foods |-> <<>>]),
                            JsonText("{foods: [{apple}]}", [foods |-> <<RecApple>>]),
                            JsonText("{foods: [{apple}, {apple without protein}]}",
                                     [foods |-> <<RecApple, RecNoProtein>>]),
                            JsonText("{totalHits: 0}", [totalHits |-> 0])})
SearchResponses ==
    ErrorResponses \cup Ok({JsonText("{foods: [{apple}]}", [foods |-> <<RecApple>>]),
                            JsonText("{foods: [{apple}, {apple without protein}]}",
                                     [foods |-> <<RecApple, RecNoProtein>>])})
SpecResponses ==
    ErrorResponses \cup Ok({JsonText("{openapi: 3.0.1}", [openapi |-> "3.0.1"]),
                            NotJson("openapi: 3.0.1")})

(***************************************************************************)
(* What one client call did, as the caller and the network see it.         *)
(***************************************************************************)
NoParams == [api_key |-> ""]

\* The call ended before any request: exc raised, or a stored value returned.
Raised(exc, msg) ==
    [hit |-> FALSE, requested |-> FALSE, url |-> "", params |-> NoParams,
     status |-> 0, body_read |-> FALSE, outcome |-> exc, message |-> msg,
     result |-> <<>>]

Hit(value) ==
    [hit |-> TRUE, requested |-> FALSE, url |-> "", params |-> NoParams,
     status |-> 0, body_read |-> FALSE, outcome |-> "return", message |-> "",
     result |-> value]

\* requests.get(url, params=params) answered by resp, then check_response,
\* then the method's own reading of the body, whose result is parsed.
get_checked(url, params, resp, parsed) ==
    LET chk == check_response(resp.status) IN
    IF chk.outcome # "return"
    THEN [hit |-> FALSE, requested |-> TRUE, url |-> url,
          params |-> params, status |-> resp.status, body_read |-> FALSE,
          outcome |-> chk.outcome, message |-> chk.message, result |-> <<>>]
    ELSE [hit |-> FALSE, requested |-> TRUE, url |-> url,
          params |-> params, status |-> resp.status, body_read |-> TRUE,
          outcome |-> parsed.outcome, message |-> parsed.message,
          result |-> parsed.result]

Failed(exc, msg) == [outcome |-> exc, message |-> msg, result |-> <<>>]
Returned(value) == [outcome |-> "return", message |-> "", result |-> value]

\* FoodEntry.from_json(json.loads(response.text)), line 108
read_food(text) ==
    LET loaded == json_loads(text) IN
    IF loaded.outcome # "return" THEN Failed(loaded.outcome, "") ELSE
    LET e == from_json(loaded.value) IN
    IF e.outcome # "return" THEN Failed(e.outcome, e.key)
    ELSE Returned(<<e.value>>)

\* [FoodEntry.from_json(x) for x in json.loads(response.text)["foods"]],
\* lines 133 and 151
read_foods(text) ==
    LET loaded == json_loads(text) IN
    IF loaded.outcome # "return" THEN Failed(loaded.outcome, "") ELSE
    IF "foods" \notin DOMAIN loaded.value THEN Failed("KeyError", "foods") ELSE
    LET foods == loaded.value.foods
        es == [j \in DOMAIN foods |-> from_json(foods[j])]
        bad == {j \in DOMAIN es : es[j].outcome # "return"}
    IN
    IF bad # {}
    THEN LET j == CHOOSE x \in bad : \A y \in bad : x <= y
         IN Failed(es[j].outcome, es[j].key)
    ELSE Returned([j \in DOMAIN es |-> es[j].value])

\* json.loads(response.text), line 162
read_json(text) ==
    LET loaded == json_loads(text) IN
    IF loaded.outcome # "return" THEN Failed(loaded.outcome, "")
    ELSE Returned(<<loaded.value>>)

\* response.text, line 175
read_text(text) == Returned(<<text.chars>>)

\* read_food and read_foods on each text the backend can send, worked out once
FoodReadings == [t \in {r.text : r \in FoodResponses} |-> read_food(t)]
FoodsReadings ==
    [t \in {r.text : r \in FoodsResponses \cup SearchResponses} |-> read_foods(t)]

(***************************************************************************)
(* The bodies of the FCAPI methods, lines 81-175.  self is the instance's  *)
(* __dict__; resp is the answer the backend gives if a request is sent.    *)
(***************************************************************************)
MsgFoodId == "food_id must be an integer. for a list use foods_by_id"
MsgFoodIds == "food_ids must be a list. for a single id use food_by_id"
MsgTooMany == "food_ids must be a list of length <= 20"
MsgUnhashable == "unhashable type: 'list'"

food_by_id(self, food_id, kwargs, resp) ==
    IF ~isinstance_int(food_id) THEN Raised("TypeError", MsgFoodId) ELSE
    LET url == urljoin(base_url, "food/" \o str(food_id.num \div 10))
        params == update([api_key |-> self.api_key], kwargs)
    IN get_checked(url, params, resp, FoodReadings[resp.text])

foods_by_id(self, food_ids, kwargs, resp) ==
    IF ~isinstance_list(food_ids) THEN Raised("TypeError", MsgFoodIds) ELSE
    IF Len(food_ids.items) > MaxBatch THEN Raised("ValueError", MsgTooMany) ELSE
    LET url == urljoin(base_url, "foods")
        params == update(
            [api_key |-> self.api_key,
             fdcIds |-> join(",", [j \in DOMAIN food_ids.items |-> str(food_ids.items[j])])],
            kwargs)
    IN get_checked(url, params, resp, FoodsReadings[resp.text])

search_params_with_query(self, query, brand, kwargs) ==
    update([api_key |-> self.api_key, query |-> query], kwargs)

\* lines 147-148
search_params(self, query, brand, kwargs) ==
    update([api_key |-> self.api_key], kwargs)

search_food_by_query(self, query, brand, kwargs, resp) ==
    LET url == urljoin(base_url, "foods/search")
        params == search_params(self, query, brand, kwargs)
    IN get_checked(url, params, resp, FoodsReadings[resp.text])

json_spec(self, resp) ==
    LET url == urljoin(base_url, "json-spec")
        params == [api_key |-> self.api_key]
    IN get_checked(url, params, resp, read_json(resp.text))

yaml_spec(self, resp) ==
    LET url == urljoin(base_url, "yaml-spec")
        params == [api_key |-> self.api_key]
    IN get_checked(url, params, resp, read_text(resp.text))

(***************************************************************************)
(* State.                                                                  *)
(***************************************************************************)
Methods == {"food_by_id", "foods_by_id", "search_food_by_query"}

NoCall ==
    [inst |-> 0, method |-> "none", sig |-> <<>>, argtype |-> "", nargs |-> 0,
     query |-> "", brand |-> "", kwargs |-> <<>>]
    @@ Raised("none", "")

Init ==
    /\ cache = [m \in Methods |-> <<>>]
    /\ inst_dict = [i \in Instances |-> [api_key |-> ApiKeys[i]]]
    /\ returned = <<>>
    /\ last = NoCall
    /\ ncalls = 0
    /\ data = <<>>
    /\ output = NoOutput

\* The exact call: instance, method, arguments as written, keyword items.
Sig(i, m, args, kwargs) ==
    <<ToString(i), m>> \o [j \in DOMAIN args |-> exact(args[j])] \o flatten(kwargs)

\* Bookkeeping common to every call: the observation and the history.
Observe(call, r) ==
    /\ ncalls' = ncalls + 1
    /\ last' = call @@ r
    /\ returned' = IF r.outcome = "return" /\ call.sig \notin DOMAIN returned
                   THEN returned @@ (call.sig :> r.result)
                   ELSE returned
    /\ UNCHANGED <<data, output>>

(***************************************************************************)
(* The decorators.  body[resp] is the result of running the decorated      *)
(* function when the backend answers resp; body[NoResponse] tells whether  *)
(* the function sends a request at all.                                    *)
(***************************************************************************)
\* functools.cache on method m: hash the arguments (self first), return the
\* stored result for the key if there is one, else run the body and store.
Cached(call, m, args, kwargs, body) ==
    IF \E j \in DOMAIN args : ~hashable(args[j])
    THEN /\ Observe(call, Raised("TypeError", MsgUnhashable))
         /\ UNCHANGED <<cache, inst_dict>>
    ELSE LET key == make_key(args, kwargs) IN
         IF key \in DOMAIN cache[m]
         THEN /\ Observe(call, Hit(cache[m][key]))
              /\ UNCHANGED <<cache, inst_dict>>
         ELSE \E resp \in Answers(body[NoResponse], DOMAIN body) :
                LET r == body[resp] IN
                /\ Observe(call, r)
                /\ cache' = [cache EXCEPT ![m] = cache_update(cache[m], key, r)]
                /\ UNCHANGED inst_dict

\* functools.cached_property name on instance i: return the value kept in
\* the instance __dict__ if there is one, else run the body and keep it.
CachedProperty(call, i, name, body) ==
    IF name \in DOMAIN inst_dict[i]
    THEN /\ Observe(call, Hit(inst_dict[i][name]))
         /\ UNCHANGED <<cache, inst_dict>>
    ELSE \E resp \in Answers(body[NoResponse], DOMAIN body) :
           LET r == body[resp] IN
           /\ Observe(call, r)
           /\ inst_dict' = [inst_dict EXCEPT ![i] =
                               cached_property_update(inst_dict[i], name, r)]
           /\ UNCHANGED cache

(***************************************************************************)
(* One action per client operation.                                        *)
(***************************************************************************)
FoodById ==
    /\ ncalls < MaxCalls
    /\ \E i \in Instances, food_id \in FoodIds, kwargs \in FoodKwargs :
         Cached([inst |-> i, method |-> "food_by_id",
                 sig |-> Sig(i, "food_by_id", <<food_id>>, kwargs),
                 argtype |-> food_id.type, nargs |-> 0,
                 query |-> "", brand |-> "", kwargs |-> kwargs],
                "food_by_id", <<Self(i), food_id>>, kwargs,
                [resp \in With(FoodResponses) |->
                    food_by_id(inst_dict[i], food_id, kwargs, resp)])

FoodsById ==
    /\ ncalls < MaxCalls
    /\ \E i \in Instances, food_ids \in FoodIdLists, kwargs \in FoodsKwargs :
         Cached([inst |-> i, method |-> "foods_by_id",
                 sig |-> Sig(i, "foods_by_id", <<food_ids>>, kwargs),
                 argtype |-> food_ids.type, nargs |-> Len(food_ids.items),
                 query |-> "", brand |-> "", kwargs |-> kwargs],
                "foods_by_id", <<Self(i), food_ids>>, kwargs,
                [resp \in With(FoodsResponses) |->
                    foods_by_id(inst_dict[i], food_ids, kwargs, resp)])

SearchFoodByQuery ==
    /\ ncalls < MaxCalls
    /\ \E i \in Instances, sc \in SearchCalls :
         LET given == <<PyStr(sc.query)>>
                      \o (IF sc.brand = "" THEN <<>> ELSE <<PyStr(sc.brand)>>)
         IN Cached([inst |-> i, method |-> "search_food_by_query",
                    sig |-> Sig(i, "search_food_by_query", given, sc.kwargs),
                    argtype |-> "str", nargs |-> 0,
                    query |-> sc.query, brand |-> sc.brand, kwargs |-> sc.kwargs],
                   "search_food_by_query", <<Self(i)>> \o given, sc.kwargs,
                   [resp \in With(SearchResponses) |->
                       search_food_by_query(inst_dict[i], sc.query, sc.brand,
                                            sc.kwargs, resp)])

SpecCall(i, name) ==
    [inst |-> i, method |-> name, sig |-> Sig(i, name, <<>>, <<>>),
     argtype |-> "", nargs |-> 0, query |-> "", brand |-> "", kwargs |-> <<>>]

JsonSpec ==
    /\ ncalls < MaxCalls
    /\ \E i \in Instances :
         CachedProperty(SpecCall(i, "json_spec"), i, "json_spec",
                        [resp \in With(SpecResponses) |-> json_spec(inst_dict[i], resp)])

YamlSpec ==
    /\ ncalls < MaxCalls
    /\ \E i \in Instances :
         CachedProperty(SpecCall(i, "yaml_spec"), i, "yaml_spec",
                        [resp \in With(SpecResponses) |-> yaml_spec(inst_dict[i], resp)])

Next == FoodById \/ FoodsById \/ SearchFoodByQuery \/ JsonSpec \/ YamlSpec

Spec == Init /\ [][Next]_vars

(***************************************************************************)
(* The normalizer on its own: parse_json applied to each raw record.       *)
(***************************************************************************)
InitNorm ==
    /\ cache = [m \in Methods |-> <<>>]
    /\ inst_dict = [i \in Instances |-> [api_key |-> ApiKeys[i]]]
    /\ returned = <<>>
    /\ last = NoCall
    /\ ncalls = 0
    /\ data \in RawRecords
    /\ output = NoOutput

Normalize ==
    /\ output = NoOutput
    /\ output' = parse_json(data)
    /\ UNCHANGED <<cache, inst_dict, returned, last, ncalls, data>>

NextNorm == Normalize

SpecNorm == InitNorm /\ [][NextNorm]_vars


(***************************************************************************)
(* Properties.                                                             *)
(***************************************************************************)
\* A step that is one client call
CallStep == ncalls' = ncalls + 1

KwNames(kwargs) == {kwargs[j].name : j \in DOMAIN kwargs}

\* C1: once a call of a memoized method (food_by_id, foods_by_id,
\* search_food_by_query) with given arguments has returned on an instance,
\* every later call with the same arguments on that instance, whatever calls
\* came in between, returns that same result and sends no HTTP request.
C1_MemoizedCallReplays ==
    [][(CallStep /\ last'.method \in Methods /\ last'.sig \in DOMAIN returned)
        => /\ ~last'.requested
           /\ last'.outcome = "return"
           /\ last'.result = returned[last'.sig]]_vars

\* Three calls: one returned, a different one returned in between, and the
\* first one repeated was answered from the cache.
C1_Witness ==
    /\ ncalls = 3
    /\ last.method = "food_by_id"
    /\ last.hit
    /\ last.sig \in DOMAIN returned
    /\ \E s \in DOMAIN returned : s # last.sig /\ s[2] = "food_by_id"

\* C2 (as claimed): food_by_id with a non-integer food_id always fails with a
\* type error and sends no HTTP request, in every state of the client.
C2_NonIntegerIdIsTypeError ==
    (last.method = "food_by_id" /\ last.argtype # "int")
        => (last.outcome = "TypeError" /\ ~last.requested)

\* C3 (as claimed): foods_by_id with a list of 21 or more ids always fails
\* with a value error, before any HTTP request.
C3_LongListIsValueError ==
    (last.method = "foods_by_id" /\ last.argtype \in {"list", "hashable_list"}
        /\ last.nargs > MaxBatch)
        => (last.outcome = "ValueError" /\ ~last.requested)

\* C4: for every client method and every status code of the response: 200
\* lets the call go on to read the body; 400 fails the call with the
\* invalid-parameter error, 404 with the not-found error, any other code with
\* the unknown error; in every non-200 case the body is not read and no
\* result is returned.
C4_StatusClassification ==
    last.requested =>
        /\ last.status = 200 => last.body_read
        /\ last.status = 400 => (last.outcome = "ValueError" /\ last.message = MsgInvalid)
        /\ last.status = 404 => (last.outcome = "ValueError" /\ last.message = MsgNotFound)
        /\ last.status \notin {200, 400, 404}
              => (last.outcome = "RuntimeError" /\ last.message = MsgUnknown)
        /\ last.status # 200 => (~last.body_read /\ last.result = <<>>)

C4_Witness ==
    /\ last.requested
    /\ last.status = 404
    /\ last.outcome = "ValueError"
    /\ last.message = MsgNotFound
    /\ ~last.body_read

\* C5: json_spec and yaml_spec fetch their document once per instance: after
\* the first access that returned a document, no later access on that
\* instance sends an HTTP request, and each returns that same document.
C5_SpecFetchedOnce ==
    [][(CallStep /\ last'.method \in {"json_spec", "yaml_spec"}
            /\ last'.sig \in DOMAIN returned)
        => /\ ~last'.requested
           /\ last'.outcome = "return"
           /\ last'.result = returned[last'.sig]]_vars

\* The document was fetched, then an access failed or another property was
\* read, then the document was read again without a request.
C5_Witness ==
    /\ ncalls = 3
    /\ last.method = "yaml_spec"
    /\ last.hit
    /\ last.result = <<"openapi: 3.0.1">>
    /\ "yaml_spec" \in DOMAIN inst_dict[last.inst]

\* C6: stored results are scoped to one instance: a call answered from a
\* cache gets a result that the same method returned earlier to the same
\* instance, so a call that returns on an instance where the method has not
\* returned before has sent its own HTTP request, whatever other instances
\* have stored.
SameInstanceReturns(obs) ==
    {s \in DOMAIN returned : s[1] = ToString(obs.inst) /\ s[2] = obs.method}

C6_InstanceScoped ==
    [][CallStep =>
        /\ last'.hit => \E s \in SameInstanceReturns(last') : returned[s] = last'.result
        /\ (last'.outcome = "return" /\ SameInstanceReturns(last') = {})
              => last'.requested]_vars

\* Instance 2 sent its own request for a call that instance 1 had already
\* been answered.
C6_Witness ==
    /\ last.inst = 2
    /\ last.method = "food_by_id"
    /\ last.requested
    /\ last.outcome = "return"
    /\ [last.sig EXCEPT ![1] = "1"] \in DOMAIN returned

NutrientNames(d) ==
    {lower(d.foodNutrients[j].nutrient.name) : j \in DOMAIN d.foodNutrients}

ValidRecord(d) ==
    /\ TopKeys \subseteq DOMAIN d
    /\ LabelKeys \subseteq DOMAIN d.labelNutrients
    /\ RequiredNutrients \subseteq NutrientNames(d)

EnergyAmount(d) ==
    d.foodNutrients[SetMax({j \in DOMAIN d.foodNutrients :
                              lower(d.foodNutrients[j].nutrient.name) = "energy"})].amount

\* c is tenths truncated toward zero: a whole number of units no further
\* from zero than tenths, and less than one unit away from it
IsTruncation(c, tenths) ==
    IF tenths >= 0
    THEN 10 * c <= tenths /\ tenths < 10 * c + 10
    ELSE 10 * c >= tenths /\ tenths > 10 * c - 10

C8_CaloriesTruncated ==
    (output # NoOutput /\ ValidRecord(data)) =>
        /\ output.outcome = "return"
        /\ IsTruncation(output.value.calories, EnergyAmount(data))

C8_Witness ==
    /\ output.outcome = "return"
    /\ EnergyAmount(data) = 529
    /\ output.value.calories = 52

\* C9: for every raw record whose foodNutrients list lacks one of the four
\* required nutrient names (compared case-insensitively), parse_json fails
\* with a missing-key error and produces no output.
C9_MissingNutrientFails ==
    (output # NoOutput /\ "foodNutrients" \in DOMAIN data
        /\ ~(RequiredNutrients \subseteq NutrientNames(data)))
        => (output.outcome = "KeyError" /\ output.value = <<>>)

C9_Witness ==
    /\ output.outcome = "KeyError"
    /\ output.key = "protein"
    /\ "foodNutrients" \in DOMAIN data
    /\ RequiredNutrients \ NutrientNames(data) = {"protein"}

====
